---- MODULE Spec2Model ----
(***************************************************************************)
(* Model of client.py: the MCPClient command-line chat client.             *)
(*                                                                         *)
(* Python strings are modelled as sequences of one-character strings, so   *)
(* that lower(), upper(), strip(), split() and float() are computed        *)
(* character by character as the interpreter computes them.                *)
(***************************************************************************)
EXTENDS Integers, Sequences, FiniteSets, TLC

(* ------------------------------------------------------------------ *)
(* Bounds of the model                                                 *)
(* ------------------------------------------------------------------ *)

\* an input line is the concatenation of at most MaxPieces pieces
MaxPieces == 3

(* ------------------------------------------------------------------ *)
(* String literals of the program                                      *)
(* ------------------------------------------------------------------ *)

TRIGGER_ALERT == <<"w","e","a","t","h","e","r"," ","a","l","e","r","t"," ","i","n">>
TRIGGER_FORECAST == <<"w","e","a","t","h","e","r"," ","f","o","r","e","c","a","s","t"," ","f","o","r">>
QUIT == <<"q","u","i","t">>
PY_EXT == <<".","p","y">>
GET_ALERTS == <<"g","e","t","_","a","l","e","r","t","s">>
GET_FORECAST == <<"g","e","t","_","f","o","r","e","c","a","s","t">>
MODEL_NAME == <<"l","l","a","m","a","3",".","2",":","l","a","t","e","s","t">>
MSG_INVALID_LOCATION == <<"I","n","v","a","l","i","d"," ","l","o","c","a","t","i","o","n"," ","f","o","r","m","a","t","."," ","P","l","e","a","s","e"," ","p","r","o","v","i","d","e"," ","l","a","t","i","t","u","d","e"," ","a","n","d"," ","l","o","n","g","i","t","u","d","e",".">>
ERR_CALLING == <<"E","r","r","o","r"," ","c","a","l","l","i","n","g"," ","t","o","o","l"," ">>
COLON_SP == <<":"," ">>
TOOL_SP == <<"T","o","o","l"," ">>
NOT_AVAILABLE == <<" ","n","o","t"," ","a","v","a","i","l","a","b","l","e",".">>
ERROR_PREFIX == <<"E","r","r","o","r",":"," ">>
NL == <<"\n">>

(* ------------------------------------------------------------------ *)
(* Python string operations                                            *)
(* ------------------------------------------------------------------ *)

UpperCase == <<"A","B","C","D","E","F","G","H","I","J","K","L","M","N","O","P","Q","R","S","T","U","V","W","X","Y","Z">>
LowerCase == <<"a","b","c","d","e","f","g","h","i","j","k","l","m","n","o","p","q","r","s","t","u","v","w","x","y","z">>
Digits == <<"0","1","2","3","4","5","6","7","8","9">>
Whitespace == {" ", "\t", "\n"}

IndexIn(alphabet, c) ==
    IF \E i \in 1..Len(alphabet) : alphabet[i] = c
    THEN CHOOSE i \in 1..Len(alphabet) : alphabet[i] = c
    ELSE 0

\* the case mappings of the cased characters
ToLower == [c \in {UpperCase[i] : i \in 1..Len(UpperCase)} |-> LowerCase[IndexIn(UpperCase, c)]]
ToUpper == [c \in {LowerCase[i] : i \in 1..Len(LowerCase)} |-> UpperCase[IndexIn(LowerCase, c)]]

LowerChar(c) == IF c \in DOMAIN ToLower THEN ToLower[c] ELSE c
UpperChar(c) == IF c \in DOMAIN ToUpper THEN ToUpper[c] ELSE c

\* str.lower()
Lower(s) == [i \in 1..Len(s) |-> LowerChar(s[i])]
\* str.upper()
Upper(s) == [i \in 1..Len(s) |-> UpperChar(s[i])]

SetMin(S) == CHOOSE x \in S : \A y \in S : x <= y
SetMax(S) == CHOOSE x \in S : \A y \in S : x >= y

\* str.find(sub): index of the first occurrence of sub in s, 0 when absent
Find(s, sub) ==
    LET hits == {i \in 1..(Len(s) - Len(sub) + 1) : SubSeq(s, i, i + Len(sub) - 1) = sub}
    IN  IF hits = {} THEN 0 ELSE SetMin(hits)

\* sub in s
Contains(s, sub) == Find(s, sub) # 0

\* s.endswith(suffix)
EndsWith(s, suffix) ==
    Len(suffix) <= Len(s) /\ SubSeq(s, Len(s) - Len(suffix) + 1, Len(s)) = suffix

\* s.split(sep): left-to-right scan over non-overlapping occurrences of sep
RECURSIVE Split(_, _)
Split(s, sep) ==
    LET i == Find(s, sep)
    IN  IF i = 0 THEN <<s>>
        ELSE <<SubSeq(s, 1, i - 1)>> \o Split(SubSeq(s, i + Len(sep), Len(s)), sep)

\* seq[-1]
Last(seq) == seq[Len(seq)]

\* str.strip()
Strip(s) ==
    LET keep == {i \in 1..Len(s) : s[i] \notin Whitespace}
    IN  IF keep = {} THEN <<>> ELSE SubSeq(s, SetMin(keep), SetMax(keep))

\* str.split() with no separator: the maximal runs of non-whitespace
RECURSIVE SplitWhitespace(_)
SplitWhitespace(s) ==
    LET keep == {i \in 1..Len(s) : s[i] \notin Whitespace}
    IN  IF keep = {} THEN <<>>
        ELSE LET b == SetMin(keep)
                 stops == {i \in b..Len(s) : s[i] \in Whitespace}
                 e == IF stops = {} THEN Len(s) ELSE SetMin(stops) - 1
             IN  <<SubSeq(s, b, e)>> \o SplitWhitespace(SubSeq(s, e + 1, Len(s)))

\* "\n".join(items)
RECURSIVE Join(_, _)
Join(sep, items) ==
    IF items = <<>> THEN <<>>
    ELSE IF Len(items) = 1 THEN items[1]
    ELSE items[1] \o sep \o Join(sep, Tail(items))

(* ------------------------------------------------------------------ *)
(* float(token)                                                        *)
(*                                                                     *)
(* A finite value is kept as an exact decimal [m, e] meaning m / 10^e, *)
(* normalised so that equal numbers have equal representations         *)
(* ("1", "1.0" and "01" all give [m |-> 1, e |-> 0]).  The exponent     *)
(* and underscore forms of float() use characters no input of the      *)
(* model contains.                                                     *)
(* ------------------------------------------------------------------ *)

INF_NAMES == {<<"i","n","f">>, <<"i","n","f","i","n","i","t","y">>}
NAN_NAME == <<"n","a","n">>

RECURSIVE DigitsValue(_)
DigitsValue(ds) ==
    IF ds = <<>> THEN 0
    ELSE 10 * DigitsValue(SubSeq(ds, 1, Len(ds) - 1)) + (IndexIn(Digits, Last(ds)) - 1)

RECURSIVE Normalise(_, _)
Normalise(m, e) ==
    IF e > 0 /\ m % 10 = 0 THEN Normalise(m \div 10, e - 1) ELSE [m |-> m, e |-> e]

ValueError == [ok |-> FALSE, kind |-> "ValueError", m |-> 0, e |-> 0]

Float(token) ==
    LET signed == token # <<>> /\ token[1] \in {"+", "-"}
        neg == signed /\ token[1] = "-"
        body == IF signed THEN Tail(token) ELSE token
        dots == {i \in 1..Len(body) : body[i] = "."}
        digs == SelectSeq(body, LAMBDA c : IndexIn(Digits, c) # 0)
        frac == IF dots = {} THEN 0 ELSE Len(body) - SetMin(dots)
        n == Normalise(DigitsValue(digs), frac)
    IN  IF Lower(body) \in INF_NAMES
            THEN [ok |-> TRUE, kind |-> IF neg THEN "-inf" ELSE "inf", m |-> 0, e |-> 0]
        ELSE IF Lower(body) = NAN_NAME
            THEN [ok |-> TRUE, kind |-> "nan", m |-> 0, e |-> 0]
        ELSE IF /\ Len(digs) >= 1
                /\ Cardinality(dots) <= 1
                /\ Len(digs) + Cardinality(dots) = Len(body)
            THEN [ok |-> TRUE, kind |-> "finite",
                  m |-> IF neg THEN 0 - n.m ELSE n.m, e |-> n.e]
        ELSE ValueError

(* ------------------------------------------------------------------ *)
(* Inputs and outcomes supplied by the environment                     *)
(* ------------------------------------------------------------------ *)

ALERT_MIXED == <<"W","e","a","t","h","e","r"," ","A","l","e","r","t"," ","I","n">>
FORECAST_MIXED == <<"W","e","a","t","h","e","r"," ","F","o","r","e","c","a","s","t"," ","F","o","r">>
QUIT_MIXED == <<"Q","u","i","t">>
WORD_CA == <<" ","c","a">>
WORD_LAT == <<" ","3","8",".","5">>
WORD_LON == <<" ","-","1","2","0",".","2"," ">>
WORD_LATLON == <<" ","0","1"," ","+","2",".","5","0">>

\* the fragments the user's input lines are put together from
Pieces ==
    {TRIGGER_ALERT, ALERT_MIXED, TRIGGER_FORECAST, FORECAST_MIXED,
     WORD_CA, WORD_LAT, WORD_LON, WORD_LATLON, QUIT, QUIT_MIXED}

RECURSIVE LinesUpTo(_)
LinesUpTo(n) ==
    IF n = 0 THEN {<<>>}
    ELSE LET shorter == LinesUpTo(n - 1)
         IN  shorter \cup {l \o p : l \in shorter, p \in Pieces}

\* the lines input() can return
InputLines == LinesUpTo(MaxPieces)

\* sys.argv[1:]
SERVER_PY == <<"s","e","r","v","e","r",".","p","y">>
SERVER_JS == <<"s","e","r","v","e","r",".","j","s">>
SERVER_UPPER == <<"s","e","r","v","e","r",".","P","Y">>
ArgLists == {<<>>, <<SERVER_PY>>, <<SERVER_JS>>, <<SERVER_UPPER>>}

\* the tool lists a server can answer list_tools() with (tool names)
TOOL_OTHER == <<"e","c","h","o">>
ToolLists == {{GET_ALERTS, GET_FORECAST}, {GET_ALERTS, TOOL_OTHER}, {}}

TEXT_A == <<"s","u","n","n","y">>
TEXT_B == <<"w","i","n","d","y">>
MSG_BOOM == <<"b","o","o","m">>
MSG_EOF == <<"E","O","F"," ","w","h","e","n"," ","r","e","a","d","i","n","g"," ","a"," ","l","i","n","e">>

\* what session.call_tool() can do: return a result whose content is a list
\* of items (given by their str()), return one whose content is not a list
\* (given by its str()), or raise an Exception with message msg
RemoteOutcomes ==
    { [kind |-> "list", items |-> <<TEXT_A, TEXT_B>>, msg |-> <<>>],
      [kind |-> "other", items |-> <<TEXT_A>>, msg |-> <<>>],
      [kind |-> "raise", items |-> <<>>, msg |-> MSG_BOOM] }

\* what ollama.chat() can do: answer {"message": {"content": text}} or raise
ChatOutcomes ==
    { [kind |-> "reply", content |-> TEXT_A],
      [kind |-> "reply", content |-> TEXT_B],
      [kind |-> "raise", content |-> MSG_BOOM] }

\* the exception classes that derive from Exception
ExceptionTypes == {"ValueError", "EOFError", "OSError", "McpError", "ResponseError"}

(* ------------------------------------------------------------------ *)
(* MCPClient: pure parts of the methods                                *)
(* ------------------------------------------------------------------ *)

\* connect_to_server: is_python
IsPythonAny(server_script_path) == TRUE
is_python(server_script_path) == EndsWith(server_script_path, PY_EXT)

\* call_mcp_tool: the registry test
ToolAlwaysAvailable(tool_name, tools) == TRUE
ToolAvailable(tool_name, tools) == tool_name \in tools

\* call_mcp_tool: the except clause around the remote call
RemoteErrorNotCaught(tool_name, remote) ==
    [kind |-> "raise", exc |-> "McpError", text |-> remote.msg]
RemoteErrorCaught(tool_name, remote) ==
    [kind |-> "return", exc |-> "None",
     text |-> ERR_CALLING \o tool_name \o COLON_SP \o remote.msg]

\* call_mcp_tool(tool_name, params) with the registry `tools`, when the
\* remote call behaves as `remote`
CallMcpTool(tool_name, params, tools, remote) ==
    IF ToolAvailable(tool_name, tools)
    THEN [remoteCalls |-> <<[name |-> tool_name, arguments |-> params,
                              raised |-> (remote.kind = "raise")]>>,
          out |-> IF remote.kind = "raise" THEN RemoteErrorCaught(tool_name, remote)
                  ELSE IF remote.kind = "list"
                       THEN [kind |-> "return", exc |-> "None",
                             text |-> Join(NL, remote.items)]
                  ELSE [kind |-> "return", exc |-> "None", text |-> remote.items[1]]]
    ELSE [remoteCalls |-> <<>>,
          out |-> [kind |-> "return", exc |-> "None",
                   text |-> TOOL_SP \o tool_name \o NOT_AVAILABLE]]

\* process_query: the region code of an alert query
AlertState(query) == Upper(Strip(Last(Split(query, TRIGGER_ALERT))))

\* process_query: the location text of a forecast query
ForecastLocation(query) == Strip(Last(Split(query, TRIGGER_FORECAST)))

\* process_query: lat, lon = map(float, location.split())
\* (too few values, too many values and a bad token all raise ValueError)
LatLonFirstTwo(location) ==
    LET toks == SplitWhitespace(location)
    IN  IF Len(toks) >= 2 /\ Float(toks[1]).ok /\ Float(toks[2]).ok
        THEN [ok |-> TRUE, lat |-> Float(toks[1]), lon |-> Float(toks[2])]
        ELSE [ok |-> FALSE, lat |-> ValueError, lon |-> ValueError]
LatLon(location) ==
    LET toks == SplitWhitespace(location)
    IN  IF Len(toks) = 2 /\ Float(toks[1]).ok /\ Float(toks[2]).ok
        THEN [ok |-> TRUE, lat |-> Float(toks[1]), lon |-> Float(toks[2])]
        ELSE [ok |-> FALSE, lat |-> ValueError, lon |-> ValueError]

\* process_query: messages
MessagesLowered(query) == <<[role |-> "user", content |-> Lower(query)]>>
Messages(query) == <<[role |-> "user", content |-> query]>>

\* process_query: which branch a query takes
Route(query) ==
    IF Contains(Lower(query), TRIGGER_ALERT) THEN "alert"
    ELSE IF Contains(Lower(query), TRIGGER_FORECAST) THEN "forecast"
    ELSE "chat"

\* process_query: the "weather alert in" branch
AlertBranch(query, tools, remote) ==
    LET params == [state |-> AlertState(query)]
        r == CallMcpTool(GET_ALERTS, params, tools, remote)
    IN  [mcpCalls |-> <<[tool_name |-> GET_ALERTS, params |-> params]>>,
         remoteCalls |-> r.remoteCalls, chatCalls |-> <<>>, out |-> r.out]

\* process_query: the "weather forecast for" branch
ForecastBranch(query, tools, remote) ==
    LET ll == LatLon(ForecastLocation(query))
        params == [latitude |-> ll.lat, longitude |-> ll.lon]
        r == CallMcpTool(GET_FORECAST, params, tools, remote)
    IN  IF ll.ok
        THEN [mcpCalls |-> <<[tool_name |-> GET_FORECAST, params |-> params]>>,
              remoteCalls |-> r.remoteCalls, chatCalls |-> <<>>, out |-> r.out]
        ELSE [mcpCalls |-> <<>>, remoteCalls |-> <<>>, chatCalls |-> <<>>,
              out |-> [kind |-> "return", exc |-> "None",
                       text |-> MSG_INVALID_LOCATION]]

\* process_query: the ollama.chat fallback
ChatBranch(query, chat) ==
    [mcpCalls |-> <<>>, remoteCalls |-> <<>>,
     chatCalls |-> <<[model |-> MODEL_NAME, messages |-> Messages(query),
                      answer |-> chat]>>,
     out |-> IF chat.kind = "reply"
             THEN [kind |-> "return", exc |-> "None", text |-> chat.content]
             ELSE [kind |-> "raise", exc |-> "ResponseError", text |-> chat.content]]

\* chat_loop: the exit command
IsQuitExact(query) == query = QUIT
IsQuit(query) == Lower(query) = QUIT

\* chat_loop: except Exception
CatchesOnlyValueError(exc) == exc = "ValueError"
Catches(exc) == exc \in ExceptionTypes

\* main: where control goes when the try block is left, by completion or
\* by an exception
AfterTryNoFinally == "exit"
AfterTry == "finally"

(* ------------------------------------------------------------------ *)
(* State                                                               *)
(* ------------------------------------------------------------------ *)

VARIABLES
    pc,               \* where main() is
    argv,             \* sys.argv[1:]
    client,           \* whether MCPClient() has been constructed
    session,          \* self.session
    exit_stack,       \* self.exit_stack: the contexts entered, oldest first
    available_tools,  \* self.available_tools (not read before it is set)
    line,             \* what input() returned in this turn
    query,            \* chat_loop's query
    response,         \* how process_query ended in this turn
    printed,          \* the text of the turn's print()
    pending,          \* the exception propagating out of main's try block
    loopEnd,          \* how chat_loop ended: "none", "break" or "raised"
    exitStatus,       \* the process's exit status, -1 while it runs
    \* observation of the collaborators
    routerCalls,      \* process_query calls made in this turn
    mcpCalls,         \* call_mcp_tool calls made in this turn
    remoteCalls,      \* session.call_tool calls made in this turn, and whether each raised
    chatCalls,        \* ollama.chat calls made in this turn, and what each answered
    turnError,        \* the exception raised in this turn, "None" if none
    inputsRead,       \* whether input() was ever called
    spawned,          \* the contexts ever entered on the exit stack
    released,         \* per context, how many times it was exited
    cleanups,         \* how many times cleanup() ran
    lateCalls         \* whether a tool call was issued after cleanup()

vars == <<pc, argv, client, session, exit_stack, available_tools, line, query,
          response, printed, pending, loopEnd, exitStatus, routerCalls, mcpCalls,
          remoteCalls, chatCalls, turnError, inputsRead, spawned, released,
          cleanups, lateCalls>>

Contexts == {"stdio_client", "ClientSession"}
NoResponse == [kind |-> "none", exc |-> "None", text |-> <<>>]

progVars == <<argv, client, session, exit_stack, available_tools>>
turnVars == <<line, query, response, printed, routerCalls, mcpCalls, remoteCalls,
              chatCalls, turnError>>
endVars == <<pending, loopEnd, exitStatus>>
ghostVars == <<inputsRead, spawned, released, cleanups, lateCalls>>

Init ==
    /\ pc = "main"
    /\ argv \in ArgLists
    /\ client = FALSE
    /\ session = "None"
    /\ exit_stack = <<>>
    /\ available_tools = {}
    /\ line = <<>>
    /\ query = <<>>
    /\ response = NoResponse
    /\ printed = <<>>
    /\ pending = "None"
    /\ loopEnd = "none"
    /\ exitStatus = -1
    /\ routerCalls = 0
    /\ mcpCalls = <<>>
    /\ remoteCalls = <<>>
    /\ chatCalls = <<>>
    /\ turnError = "None"
    /\ inputsRead = FALSE
    /\ spawned = {}
    /\ released = [c \in Contexts |-> 0]
    /\ cleanups = 0
    /\ lateCalls = FALSE

(* ------------------------------------------------------------------ *)
(* main and connect_to_server                                          *)
(* ------------------------------------------------------------------ *)

\* an exception leaves main's try block
Raise(exc) ==
    /\ pending' = exc
    /\ pc' = AfterTry

\* main: the argument check and MCPClient()
MainStart ==
    /\ pc = "main"
    /\ IF Len(argv) < 1
       THEN /\ pc' = "done"
            /\ exitStatus' = 1
            /\ UNCHANGED client
       ELSE /\ pc' = "connect"
            /\ client' = TRUE
            /\ UNCHANGED exitStatus
    /\ UNCHANGED <<argv, session, exit_stack, available_tools, pending, loopEnd>>
    /\ UNCHANGED <<turnVars, ghostVars>>

\* connect_to_server: the extension check
ConnectCheck ==
    /\ pc = "connect"
    /\ IF is_python(argv[1])
       THEN pc' = "stdio" /\ UNCHANGED pending
       ELSE Raise("ValueError")
    /\ UNCHANGED <<progVars, turnVars, loopEnd, exitStatus, ghostVars>>

\* connect_to_server: enter_async_context(stdio_client(...)) spawns the
\* server; a context that fails to enter is not pushed on the exit stack
EnterStdio ==
    /\ pc = "stdio"
    /\ \E ok \in BOOLEAN :
        IF ok
        THEN /\ exit_stack' = Append(exit_stack, "stdio_client")
             /\ spawned' = spawned \cup {"stdio_client"}
             /\ pc' = "session"
             /\ UNCHANGED pending
        ELSE /\ Raise("OSError")
             /\ UNCHANGED <<exit_stack, spawned>>
    /\ UNCHANGED <<argv, client, session, available_tools, turnVars, loopEnd,
                   exitStatus, inputsRead, released, cleanups, lateCalls>>

\* connect_to_server: self.session = enter_async_context(ClientSession(...))
EnterSession ==
    /\ pc = "session"
    /\ \E ok \in BOOLEAN :
        IF ok
        THEN /\ exit_stack' = Append(exit_stack, "ClientSession")
             /\ spawned' = spawned \cup {"ClientSession"}
             /\ session' = "ClientSession"
             /\ pc' = "initialize"
             /\ UNCHANGED pending
        ELSE /\ Raise("OSError")
             /\ UNCHANGED <<exit_stack, spawned, session>>
    /\ UNCHANGED <<argv, client, available_tools, turnVars, loopEnd,
                   exitStatus, inputsRead, released, cleanups, lateCalls>>

\* connect_to_server: await self.session.initialize()
Initialize ==
    /\ pc = "initialize"
    /\ \E ok \in BOOLEAN :
        IF ok THEN pc' = "list_tools" /\ UNCHANGED pending
        ELSE Raise("McpError")
    /\ UNCHANGED <<progVars, turnVars, loopEnd, exitStatus, ghostVars>>

\* connect_to_server: list_tools() fills the registry; chat_loop starts
ListTools ==
    /\ pc = "list_tools"
    /\ \/ \E tools \in ToolLists :
            /\ available_tools' = tools
            /\ pc' = "awaiting"
            /\ UNCHANGED pending
       \/ /\ Raise("McpError")
          /\ UNCHANGED available_tools
    /\ UNCHANGED <<argv, client, session, exit_stack, turnVars, loopEnd,
                   exitStatus, ghostVars>>

(* ------------------------------------------------------------------ *)
(* chat_loop                                                           *)
(* ------------------------------------------------------------------ *)

\* an exception is raised inside the loop's try block
RaiseInTurn(exc, msg) ==
    /\ response' = [kind |-> "raise", exc |-> exc, text |-> msg]
    /\ turnError' = exc
    /\ pc' = "except"

\* query = input("\nQuery: ").strip(), and the test for the exit command
ReadInput ==
    /\ pc = "awaiting"
    /\ inputsRead' = TRUE
    /\ \/ \E l \in InputLines :
            /\ line' = l
            /\ query' = Strip(l)
            /\ IF IsQuit(Strip(l))
               THEN /\ loopEnd' = "break"
                    /\ pc' = AfterTry
               ELSE /\ pc' = "processing"
                    /\ UNCHANGED loopEnd
            /\ UNCHANGED <<response, turnError>>
       \/ \* end of file on standard input
          /\ RaiseInTurn("EOFError", MSG_EOF)
          /\ UNCHANGED <<line, query, loopEnd>>
       \/ \* the user interrupts the program while it waits
          /\ RaiseInTurn("KeyboardInterrupt", <<>>)
          /\ UNCHANGED <<line, query, loopEnd>>
    /\ UNCHANGED <<progVars, printed, routerCalls, mcpCalls, remoteCalls,
                   chatCalls, pending, exitStatus, spawned, released, cleanups,
                   lateCalls>>

\* the end of `response = await self.process_query(query)` with result r
Processed(r) ==
    /\ routerCalls' = routerCalls + 1
    /\ mcpCalls' = r.mcpCalls
    /\ remoteCalls' = r.remoteCalls
    /\ chatCalls' = r.chatCalls
    /\ lateCalls' = (lateCalls \/ (r.remoteCalls # <<>> /\ cleanups > 0))
    /\ IF r.out.kind = "return"
       THEN /\ response' = r.out
            /\ pc' = "printing"
            /\ UNCHANGED turnError
       ELSE RaiseInTurn(r.out.exc, r.out.text)
    /\ UNCHANGED <<progVars, line, query, printed, endVars, inputsRead, spawned,
                   released, cleanups>>

\* process_query on a query with the alert trigger
ProcessAlert ==
    /\ pc = "processing"
    /\ Route(query) = "alert"
    /\ \E remote \in RemoteOutcomes :
         Processed(AlertBranch(query, available_tools, remote))

\* process_query on a query with the forecast trigger
ProcessForecast ==
    /\ pc = "processing"
    /\ Route(query) = "forecast"
    /\ \E remote \in RemoteOutcomes :
         Processed(ForecastBranch(query, available_tools, remote))

\* process_query on any other query
ProcessChat ==
    /\ pc = "processing"
    /\ Route(query) = "chat"
    /\ \E chat \in ChatOutcomes :
         Processed(ChatBranch(query, chat))

\* print("\n" + response)
PrintResponse ==
    /\ pc = "printing"
    /\ printed' = NL \o response.text
    /\ pc' = "loop"
    /\ UNCHANGED <<progVars, line, query, response, routerCalls, mcpCalls,
                   remoteCalls, chatCalls, turnError, endVars, ghostVars>>

\* except Exception as e: print(f"\nError: {str(e)}"); an exception of any
\* other kind leaves chat_loop
Except ==
    /\ pc = "except"
    /\ IF Catches(turnError)
       THEN /\ printed' = NL \o ERROR_PREFIX \o response.text
            /\ pc' = "loop"
            /\ UNCHANGED <<pending, loopEnd>>
       ELSE /\ Raise(turnError)
            /\ loopEnd' = "raised"
            /\ UNCHANGED printed
    /\ UNCHANGED <<progVars, line, query, response, routerCalls, mcpCalls,
                   remoteCalls, chatCalls, turnError, exitStatus, ghostVars>>

\* while True: the next iteration; the locals of the finished one are dead
LoopBack ==
    /\ pc = "loop"
    /\ pc' = "awaiting"
    /\ line' = <<>>
    /\ query' = <<>>
    /\ response' = NoResponse
    /\ printed' = <<>>
    /\ routerCalls' = 0
    /\ mcpCalls' = <<>>
    /\ remoteCalls' = <<>>
    /\ chatCalls' = <<>>
    /\ turnError' = "None"
    /\ UNCHANGED <<progVars, endVars, ghostVars>>

(* ------------------------------------------------------------------ *)
(* cleanup and the end of the process                                  *)
(* ------------------------------------------------------------------ *)

\* finally: await client.cleanup(), which closes the exit stack: every
\* context on it is exited and the stack is left empty
Cleanup ==
    /\ pc = "finally"
    /\ released' = [c \in Contexts |->
                      released[c] + Cardinality({i \in 1..Len(exit_stack) : exit_stack[i] = c})]
    /\ exit_stack' = <<>>
    /\ cleanups' = cleanups + 1
    /\ pc' = "exit"
    /\ UNCHANGED <<argv, client, session, available_tools, turnVars, endVars,
                   inputsRead, spawned, lateCalls>>

\* asyncio.run(main()) returns or re-raises, and the interpreter exits
Exit ==
    /\ pc = "exit"
    /\ exitStatus' = IF pending = "None" THEN 0
                     ELSE IF pending = "KeyboardInterrupt" THEN 130
                     ELSE 1
    /\ pc' = "done"
    /\ UNCHANGED <<progVars, turnVars, pending, loopEnd, ghostVars>>

Next ==
    \/ MainStart
    \/ ConnectCheck
    \/ EnterStdio
    \/ EnterSession
    \/ Initialize
    \/ ListTools
    \/ ReadInput
    \/ ProcessAlert
    \/ ProcessForecast
    \/ ProcessChat
    \/ PrintResponse
    \/ Except
    \/ LoopBack
    \/ Cleanup
    \/ Exit

Spec == Init /\ [][Next]_vars

(* ------------------------------------------------------------------ *)
(* Vocabulary of the properties                                        *)
(* ------------------------------------------------------------------ *)

\* the positions at which phrase occurs in text, in any letter case
Occurrences(text, phrase) ==
    {i \in 1..(Len(text) - Len(phrase) + 1) :
        \A k \in 1..Len(phrase) : LowerChar(text[i + k - 1]) = phrase[k]}

\* text contains phrase, in any letter case
Mentions(text, phrase) == Occurrences(text, phrase) # {}

\* what follows the (last) occurrence of phrase in text
RemainderAfter(text, phrase) ==
    SubSeq(text, SetMax(Occurrences(text, phrase)) + Len(phrase), Len(text))

\* text starts with prefix
StartsWith(text, prefix) ==
    Len(prefix) <= Len(text) /\ SubSeq(text, 1, Len(prefix)) = prefix

\* text is exactly two whitespace-separated numbers
TwoNumbers(text) ==
    LET toks == SplitWhitespace(text)
    IN  Len(toks) = 2 /\ Float(toks[1]).ok /\ Float(toks[2]).ok

\* a query that is a forecast query and not an alert query
ForecastQuery(text) ==
    Mentions(text, TRIGGER_FORECAST) /\ ~Mentions(text, TRIGGER_ALERT)

\* process_query has been called on `query` and has ended
Routed == pc \in {"printing", "except", "loop"} /\ routerCalls = 1

NoToolCall == mcpCalls = <<>> /\ remoteCalls = <<>>

\* the failures of a turn that the error taxonomy names
OperationalErrors == {"EOFError", "ResponseError", "McpError", "ValueError", "OSError"}

\* the failures of connect_to_server
StartupFailed == loopEnd = "none" /\ pending \in {"ValueError", "OSError", "McpError"}

\* the positions of main after the try block was left
Leaving == {"finally", "exit", "done"}

(* ------------------------------------------------------------------ *)
(* C1                                                                  *)
(* ------------------------------------------------------------------ *)

\* C1: for every query that contains "weather alert in" in any letter case,
\* process_query calls get_alerts once with exactly {"state": code}, where
\* code is the trimmed, upper-cased remainder of the query after the
\* trigger, and makes no forecast call and no chat-model call.
C1_AlertRouting ==
    (Routed /\ Mentions(query, TRIGGER_ALERT)) =>
        /\ mcpCalls = <<[tool_name |-> GET_ALERTS,
                         params |-> [state |->
                            Upper(Strip(RemainderAfter(query, TRIGGER_ALERT)))]]>>
        /\ chatCalls = <<>>

(* ------------------------------------------------------------------ *)
(* C2                                                                  *)
(* ------------------------------------------------------------------ *)

\* C2: for every query that contains "weather forecast for" in any letter
\* case and not the alert trigger, with exactly two numeric tokens after the
\* trigger, process_query calls get_forecast with latitude the first token
\* and longitude the second, as floats, and does not answer with the
\* invalid-format message.
C2_ForecastRouting ==
    (/\ Routed
     /\ ForecastQuery(query)
     /\ TwoNumbers(RemainderAfter(query, TRIGGER_FORECAST))) =>
        LET toks == SplitWhitespace(RemainderAfter(query, TRIGGER_FORECAST))
        IN  /\ mcpCalls = <<[tool_name |-> GET_FORECAST,
                             params |-> [latitude |-> Float(toks[1]),
                                         longitude |-> Float(toks[2])]]>>
            /\ response.text # MSG_INVALID_LOCATION

(* ------------------------------------------------------------------ *)
(* C3                                                                  *)
(* ------------------------------------------------------------------ *)

\* C3: the chat loop ends by its exit command only after an input equal to
\* "quit" was read; no operational error of a turn ends it; and a turn that
\* raised ends with the error printed as "Error: {message}" and the loop
\* back in its cycle.
C3_LoopSurvivesErrors ==
    /\ loopEnd = "break" => Lower(Strip(line)) = QUIT
    /\ loopEnd = "raised" => turnError \notin OperationalErrors
    /\ (turnError \in OperationalErrors /\ pc \notin {"except"}) =>
          /\ pc = "loop"
          /\ loopEnd = "none"
          /\ printed = NL \o ERROR_PREFIX \o response.text
    /\ (inputsRead /\ loopEnd = "none") =>
          pc \in {"awaiting", "processing", "printing", "except", "loop"}

\* a failed chat-model call was printed and the loop goes on
C3_Witness ==
    /\ pc = "loop"
    /\ turnError = "ResponseError"
    /\ chatCalls # <<>>
    /\ printed = NL \o ERROR_PREFIX \o MSG_BOOM

(* ------------------------------------------------------------------ *)
(* C4                                                                  *)
(* ------------------------------------------------------------------ *)

\* C4: once the client exists, cleanup runs exactly once on every way out
\* of main (quit, an exception out of the chat loop, a failure of
\* connect_to_server at any step); every context entered on the exit stack
\* is exited exactly once, none twice, none that was never entered; and no
\* tool call is issued after the release.
C4_ReleasedExactlyOnce ==
    /\ \A c \in Contexts : released[c] <= 1
    /\ \A c \in Contexts : released[c] = 1 => c \in spawned
    /\ cleanups <= 1
    /\ cleanups = 1 => pc \in {"exit", "done"}
    /\ (client /\ pc \in {"exit", "done"}) =>
          /\ cleanups = 1
          /\ exit_stack = <<>>
          /\ \A c \in spawned : released[c] = 1
    /\ ~lateCalls

\* an exception left the chat loop and both contexts were released once
C4_Witness ==
    /\ pc = "done"
    /\ loopEnd = "raised"
    /\ spawned = Contexts
    /\ \A c \in Contexts : released[c] = 1
    /\ cleanups = 1

(* ------------------------------------------------------------------ *)
(* C5                                                                  *)
(* ------------------------------------------------------------------ *)

\* C5: when the remote call_tool of a registered tool raises, call_mcp_tool
\* returns a text starting with "Error calling tool {name}:", nothing
\* propagates, the registry, the session handle and the exit stack are
\* unchanged and the loop stays in its cycle.
C5_RemoteFailureContained ==
    [][(/\ pc = "processing"
        /\ remoteCalls' # <<>>
        /\ remoteCalls'[1].raised) =>
          /\ remoteCalls'[1].name \in available_tools
          /\ response'.kind = "return"
          /\ StartsWith(response'.text,
                        ERR_CALLING \o remoteCalls'[1].name \o <<":">>)
          /\ turnError' = "None"
          /\ pc' = "printing"
          /\ available_tools' = available_tools
          /\ session' = session
          /\ exit_stack' = exit_stack
          /\ loopEnd' = "none"
          /\ pending' = "None"]_vars

\* a get_forecast call raised and its error text was printed
C5_Witness ==
    /\ pc = "loop"
    /\ remoteCalls # <<>>
    /\ remoteCalls[1].raised
    /\ remoteCalls[1].name = GET_FORECAST
    /\ printed = NL \o ERR_CALLING \o GET_FORECAST \o COLON_SP \o MSG_BOOM

(* ------------------------------------------------------------------ *)
(* C6                                                                  *)
(* ------------------------------------------------------------------ *)

\* C6: for every forecast query whose remainder after the trigger is not
\* exactly two valid numbers, process_query returns the fixed invalid-format
\* text and makes no tool call and no chat-model call.
C6_InvalidLocation ==
    (/\ Routed
     /\ ForecastQuery(query)
     /\ ~TwoNumbers(RemainderAfter(query, TRIGGER_FORECAST))) =>
        /\ response = [kind |-> "return", exc |-> "None", text |-> MSG_INVALID_LOCATION]
        /\ NoToolCall
        /\ chatCalls = <<>>

\* three numbers after the trigger were answered with the invalid-format text
C6_Witness ==
    /\ pc = "loop"
    /\ ForecastQuery(query)
    /\ LET toks == SplitWhitespace(RemainderAfter(query, TRIGGER_FORECAST))
       IN  Len(toks) = 3 /\ \A i \in 1..3 : Float(toks[i]).ok
    /\ printed = NL \o MSG_INVALID_LOCATION

(* ------------------------------------------------------------------ *)
(* C7                                                                  *)
(* ------------------------------------------------------------------ *)

\* C7: for a tool name that is not in the registry, call_mcp_tool returns
\* exactly "Tool {name} not available.", raises nothing and makes no remote
\* call.
C7_ToolNotAvailable ==
    (/\ Routed
     /\ mcpCalls # <<>>
     /\ mcpCalls[1].tool_name \notin available_tools) =>
        /\ response = [kind |-> "return", exc |-> "None",
                       text |-> TOOL_SP \o mcpCalls[1].tool_name \o NOT_AVAILABLE]
        /\ turnError = "None"
        /\ remoteCalls = <<>>
        /\ pc # "except"

\* get_forecast was asked of a server that lists get_alerts only
C7_Witness ==
    /\ pc = "loop"
    /\ mcpCalls # <<>>
    /\ mcpCalls[1].tool_name = GET_FORECAST
    /\ available_tools = {GET_ALERTS, TOOL_OTHER}
    /\ printed = NL \o TOOL_SP \o GET_FORECAST \o NOT_AVAILABLE

(* ------------------------------------------------------------------ *)
(* C8                                                                  *)
(* ------------------------------------------------------------------ *)

\* C8: an input of "quit" in any letter case ends the loop with no call of
\* the router, of a tool or of the chat model for that input, and is
\* followed by exactly one release of the session.
C8_QuitEndsLoop ==
    Lower(line) = QUIT =>
        /\ loopEnd = "break"
        /\ pc \in Leaving
        /\ pending = "None"
        /\ routerCalls = 0
        /\ NoToolCall
        /\ chatCalls = <<>>
        /\ cleanups = (IF pc = "finally" THEN 0 ELSE 1)
        /\ \A c \in spawned : released[c] = cleanups

\* "Quit" was entered and the process ended with the session released once
C8_Witness ==
    /\ line = QUIT_MIXED
    /\ pc = "done"
    /\ exitStatus = 0
    /\ cleanups = 1
    /\ \A c \in Contexts : released[c] = 1

(* ------------------------------------------------------------------ *)
(* C9                                                                  *)
(* ------------------------------------------------------------------ *)

\* C9: for a query with neither trigger, process_query calls the chat model
\* exactly once with the single message {role: user, content: query}, makes
\* no tool call, and returns the model's reply text unchanged.
C9_ChatFallback ==
    (/\ Routed
     /\ ~Mentions(query, TRIGGER_ALERT)
     /\ ~Mentions(query, TRIGGER_FORECAST)) =>
        /\ Len(chatCalls) = 1
        /\ chatCalls[1].messages = <<[role |-> "user", content |-> query]>>
        /\ NoToolCall
        /\ chatCalls[1].answer.kind = "reply" =>
              response = [kind |-> "return", exc |-> "None",
                          text |-> chatCalls[1].answer.content]

\* a query with capital letters and no trigger was answered by the model
C9_Witness ==
    /\ pc = "loop"
    /\ query # Lower(query)
    /\ chatCalls # <<>>
    /\ chatCalls[1].answer.kind = "reply"
    /\ printed = NL \o chatCalls[1].answer.content

(* ------------------------------------------------------------------ *)
(* C10                                                                 *)
(* ------------------------------------------------------------------ *)

\* the script path ends in ".py"
HasPyExtension(path) ==
    /\ Len(path) >= 3
    /\ <<path[Len(path) - 2], path[Len(path) - 1], path[Len(path)]>> = <<".", "p", "y">>

\* C10: with a script path that does not end in ".py", connect_to_server
\* fails before anything is spawned or a session created; and after any
\* startup failure no input is read, no tool or chat-model call is made and
\* the process ends with a non-zero status.
C10_StartupFailuresFatal ==
    /\ (client /\ pc # "connect" /\ ~HasPyExtension(argv[1])) =>
          /\ StartupFailed
          /\ spawned = {}
          /\ session = "None"
    /\ StartupFailed =>
          /\ pc \in Leaving
          /\ ~inputsRead
          /\ routerCalls = 0
          /\ NoToolCall
          /\ chatCalls = <<>>
          /\ pc = "done" => exitStatus > 0
    /\ (pc = "done" /\ ~client) => exitStatus > 0

\* server.js was refused and the process ended with status 1
C10_Witness ==
    /\ pc = "done"
    /\ argv = <<SERVER_JS>>
    /\ pending = "ValueError"
    /\ exitStatus = 1
    /\ spawned = {}
====
